---- MODULE Spec2Model ----
(***************************************************************************)
(* Model of the table-to-events extraction engine of sis-2-cal:            *)
(* ScheduleScraper.parse_events / _parse_cell_content / _parse_hour        *)
(* (src/scraper/scraper.py) and ScheduleEvent (src/scraper/models.py).     *)
(*                                                                         *)
(* A document is a sequence of table rows; a row is the text of its first  *)
(* cell and the cells after it; a cell is the sequence of its child nodes. *)
(* Texts come from a finite vocabulary and every regular expression of the *)
(* code is the set of vocabulary texts it matches.                         *)
(***************************************************************************)
EXTENDS Integers, Sequences, FiniteSets, TLC

VARIABLES
    page,       \* what the portal serves: driver.page_source, as a document
    bs4_strings_have_get_text,  \* the installed bs4: NavigableString.get_text exists
    soup,       \* ScheduleScraper._soup
    outcome,    \* how the last parse_events call since fetch_schedule ended
    previous,   \* how the parse_events call before that one ended
    parses,     \* parse_events calls since the last fetch_schedule
    cell,       \* the cell handed to _parse_cell_content
    fragments   \* what _parse_cell_content returned for it

vars == <<page, bs4_strings_have_get_text, soup, outcome, previous, parses,
          cell, fragments>>

----------------------------------------------------------------------------
(* Bounds of the model *)

MaxRows == 3
MaxNodes == 4
MaxPad == 7
MaxParses == 2

----------------------------------------------------------------------------
(* Nodes of a cell and the texts the code's patterns look at *)

None == "None"

Node(name, class, text, inner) ==
    [name |-> name, class |-> class, text |-> text, inner |-> inner]

Subject(t) == Node("a", "subject_name", t, "")
RoomAnchor(t) == Node("a", "room_name", t, "")
BoldRoom(t) == Node("b", "", t, "room_name")
Bold(t) == Node("b", "", t, "")
Text(t) == Node("#text", "", t, "")
Br == Node("br", "", "", "")
Span(t) == Node("span", "", t, "")

IsTag(n) == n.name # "#text"

\* str.strip() of a text node is non-empty
NonBlank(n) == n.text # ""

\* re.search(r'\[([WLPSC])\]', text): the code letter, "" without a match
TypeCodeIn(text) ==
    CASE text = "[W]" -> "W"
      [] text = "[L]" -> "L"
      [] text = "[P]" -> "P"
      [] text = "[S]" -> "S"
      [] text = "[C]" -> "C"
      [] text = "Sieci [L]" -> "L"
      [] OTHER -> ""

\* re.match(r'^[A-Z]{1,5}\s*[A-Z0-9][\w\.]*$', text, re.IGNORECASE)
RoomShaped(text) == text \in {"NE 1", "EA AUD.1", "od 01.03.2026"}

\* re.search(r'(do|od)\s+\d{2}\.\d{2}\.\d{4}', text)
DateConstraintIn(text) == text \in {"od 01.03.2026"}

\* 'co 2 tygodn' in text.lower()
BiweeklyIn(text) == text \in {"co 2 tygodnie"}

\* re.search(r'co\s+(\d+)\s+tygodn', text.lower()): int of the group, -1 without a match
EveryNWeeksIn(text) ==
    CASE text = "co 2 tygodnie" -> 2
      [] text = "co 3 tygodnie" -> 3
      [] text = "co 0 tygodni" -> 0
      [] OTHER -> -1

\* the instructor pattern (title, then capitalised names): group 1, "" without a match
InstructorIn(text) ==
    CASE text = "dr Jan Kowalski" -> "dr Jan Kowalski"
      [] OTHER -> ""

\* len(str(node)): the length of the node's markup
SerializedLen(n) ==
    CASE n.name = "br" -> 5
      [] n.name = "#text" -> IF n.text = "" THEN 1 ELSE 16
      [] n.name = "span" -> IF n.text = "opis" THEN 520 ELSE 30
      [] n.name = "b" -> IF n.inner = "room_name" THEN 60 ELSE 24
      [] OTHER -> 40

----------------------------------------------------------------------------
(* _parse_cell_content *)

\* event_type_map, the labels written without their diacritics
event_type_map(code) ==
    CASE code = "W" -> "Wyklad"
      [] code = "L" -> "Laboratorium"
      [] code = "P" -> "Projekt"
      [] code = "S" -> "Seminarium"
      [] code = "C" -> "Cwiczenia"
      [] OTHER -> "Zajecia"

\* cell.get_text(separator=" ", strip=True) is empty
CellTextEmpty(c) == \A i \in 1..Len(c) : c[i].text = ""

\* cell.find_all("a", class_="subject_name"), as positions in the cell
subject_links(c) ==
    {i \in 1..Len(c) : c[i].name = "a" /\ c[i].class = "subject_name"}

\* the siblings a scan over previous_siblings / next_siblings appends
PrevAppended(n, strGetText) == IsTag(n) \/ strGetText \/ NonBlank(n)

PrevWindow == 5

\* the loop over subject_link.previous_siblings: nearest first, left once
\* more than PrevWindow elements were appended
RECURSIVE CollectPrev(_, _, _, _)
CollectPrev(c, j, acc, strGetText) ==
    IF j = 0 THEN acc
    ELSE LET acc2 == IF PrevAppended(c[j], strGetText)
                     THEN Append(acc, c[j]) ELSE acc
         IN  IF Len(acc2) > PrevWindow THEN acc2
             ELSE CollectPrev(c, j - 1, acc2, strGetText)

prev_elements(c, i, strGetText) == CollectPrev(c, i - 1, <<>>, strGetText)

\* first position of a sequence whose element is in good (the loops break
\* there), 0 if there is none
FirstIn(s, good) ==
    IF \E k \in 1..Len(s) : s[k] \in good
    THEN CHOOSE k \in 1..Len(s) : s[k] \in good /\ \A q \in 1..(k - 1) : s[q] \notin good
    ELSE 0

Elements(s) == {s[k] : k \in 1..Len(s)}

IsRoomMarker(n) ==
    \/ IsTag(n) /\ n.class = "room_name"
    \/ n.name = "b" /\ n.inner = "room_name"

IsRoomShapedBold(n) == n.name = "b" /\ RoomShaped(n.text)

RoomOf(prev) ==
    LET k == FirstIn(prev, {n \in Elements(prev) : IsRoomMarker(n)})
        f == FirstIn(prev, {n \in Elements(prev) : IsRoomShapedBold(n)})
    IN  IF k # 0 THEN prev[k].text
        ELSE IF f # 0 THEN prev[f].text
        ELSE ""

HasTypeCode(n) == TypeCodeIn(n.text) # ""

TypeCodeOf(prev) ==
    LET k == FirstIn(prev, {n \in Elements(prev) : HasTypeCode(n)})
    IN  IF k # 0 THEN TypeCodeIn(prev[k].text) ELSE ""

\* the loop over subject_link.next_siblings: the state is the texts kept for
\* the instructor search, the interval and the date constraint
RECURSIVE ScanNext(_, _, _)
ScanNext(c, j, st) ==
    IF j > Len(c) THEN st
    ELSE LET n == c[j] IN
         IF ~IsTag(n)
         THEN ScanNext(c, j + 1,
                  IF NonBlank(n)
                  THEN [st EXCEPT !.next_elements = Append(@, n.text)]
                  ELSE st)
         ELSE IF n.name = "br" THEN ScanNext(c, j + 1, st)
         ELSE IF n.name = "b"
              THEN IF DateConstraintIn(n.text)
                   THEN [st EXCEPT !.date_constraint = n.text]
                   ELSE IF BiweeklyIn(n.text)
                   THEN [st EXCEPT !.repeat_interval = 2]
                   ELSE IF EveryNWeeksIn(n.text) # -1
                   THEN [st EXCEPT !.repeat_interval = EveryNWeeksIn(n.text)]
                   ELSE st
         ELSE IF n.name = "a" THEN st
         ELSE ScanNext(c, j + 1, [st EXCEPT !.next_elements = Append(@, n.text)])

HasInstructor(t) == InstructorIn(t) # ""

InstructorOf(texts) ==
    LET k == FirstIn(texts, {t \in Elements(texts) : HasInstructor(t)})
    IN  IF k # 0 THEN InstructorIn(texts[k]) ELSE ""

\* offset of node j in str(cell), counted from the first child
RECURSIVE OffsetOf(_, _)
OffsetOf(c, j) ==
    IF j <= 1 THEN 0 ELSE OffsetOf(c, j - 1) + SerializedLen(c[j - 1])

ContextWindow == 500

\* html_content.find(str(subject_link)): the first node with that markup
FirstSame(c, i) == CHOOSE p \in 1..i : c[p] = c[i] /\ \A q \in 1..(p - 1) : c[q] # c[i]

\* 'co 2 tygodn' in html_content[pos:pos+500].lower()
BiweeklyInContext(c, i) ==
    LET p == FirstSame(c, i) IN
    \E k \in p..Len(c) :
        /\ BiweeklyIn(c[k].text)
        /\ OffsetOf(c, k) + SerializedLen(c[k]) - OffsetOf(c, p) <= ContextWindow

\* 'co 2 tygodn' in cell.get_text(separator=" ", strip=True).lower()
BiweeklyInCell(c) == \E k \in 1..Len(c) : BiweeklyIn(c[k].text)

\* one pass of the loop over subject_links: the fragment of the anchor at i
FragmentOf(c, i, strGetText) ==
    LET prev == prev_elements(c, i, strGetText)
        code == TypeCodeOf(prev)
        nxt  == ScanNext(c, i + 1,
                    [next_elements |-> <<>>, repeat_interval |-> 1,
                     date_constraint |-> ""])
        interval == IF BiweeklyInCell(c) /\ nxt.repeat_interval = 1
                       /\ BiweeklyInContext(c, i)
                    THEN 2 ELSE nxt.repeat_interval
    IN  [course_name     |-> c[i].text,
         event_type      |-> event_type_map(code),
         event_type_code |-> code,
         instructor      |-> InstructorOf(nxt.next_elements),
         room            |-> RoomOf(prev),
         repeat_interval |-> interval,
         date_constraint |-> nxt.date_constraint]

RECURSIVE FragmentsFrom(_, _, _)
FragmentsFrom(c, i, strGetText) ==
    IF i > Len(c) THEN <<>>
    ELSE IF i \in subject_links(c)
         THEN <<FragmentOf(c, i, strGetText)>> \o FragmentsFrom(c, i + 1, strGetText)
         ELSE FragmentsFrom(c, i + 1, strGetText)

\* the cell parser with cell.find in place of cell.find_all: the first anchor only
parse_cell_content_first_link(c, strGetText) ==
    IF CellTextEmpty(c) THEN <<>>
    ELSE IF subject_links(c) = {} THEN <<>>
    ELSE <<FragmentOf(c, CHOOSE i \in subject_links(c) :
                             \A j \in subject_links(c) : i <= j, strGetText)>>

\* _parse_cell_content: the fragments of a cell, one per course-name anchor
parse_cell_content(c, strGetText) ==
    IF CellTextEmpty(c) THEN <<>>
    ELSE IF subject_links(c) = {} THEN <<>>
    ELSE FragmentsFrom(c, 1, strGetText)

----------------------------------------------------------------------------
(* datetime.time, _parse_hour and ScheduleEvent *)

Time(h, m) == [hour |-> h, minute |-> m]

Minutes(t) == t.hour * 60 + t.minute

\* datetime.time(hour, minute) raises ValueError outside 0..23 and 0..59
ValidTime(h, m) == h \in 0..23 /\ m \in 0..59

\* the text of a row's first cell: whether it matches ^\d{1,2}:\d{2}$ and,
\* if so, the two numbers
Label(h, m) == [matches |-> TRUE, h |-> h, m |-> m]
NoLabel == [matches |-> FALSE, h |-> 0, m |-> 0]

\* _parse_hour(first_text) for a text that matches the pattern: it raises
\* ValueError when time(hour, minute) does, and returns the time otherwise
parse_hour_raises(first_text) == ~ValidTime(first_text.h, first_text.m)

parse_hour(first_text) == Time(first_text.h, first_text.m)

\* __post_init__ without the comparison of the two times
post_init_without_times(self) ==
    IF ~(0 <= self.weekday /\ self.weekday <= 4)
    THEN "Weekday must be 0-4 (Mon-Fri)"
    ELSE IF self.repeat_interval < 1
    THEN "Repeat interval must be at least 1"
    ELSE ""

\* ScheduleEvent.__post_init__: "" when it returns, else the ValueError's message
post_init(self) ==
    IF ~(0 <= self.weekday /\ self.weekday <= 4)
    THEN "Weekday must be 0-4 (Mon-Fri)"
    ELSE IF Minutes(self.start_time) >= Minutes(self.end_time)
    THEN "Start time must be before end time"
    ELSE IF self.repeat_interval < 1
    THEN "Repeat interval must be at least 1"
    ELSE ""

ScheduleEvent(event_data, col, start_time, end_time) ==
    [course_name     |-> event_data.course_name,
     event_type      |-> event_data.event_type,
     instructor      |-> event_data.instructor,
     room            |-> event_data.room,
     weekday         |-> col,
     start_time      |-> start_time,
     end_time        |-> end_time,
     repeat_interval |-> event_data.repeat_interval,
     event_type_code |-> event_data.event_type_code]

----------------------------------------------------------------------------
(* parse_events: the grid builder *)

WeekdayCells == 5

Min(a, b) == IF a < b THEN a ELSE b

\* cells[1:6] of a row, each through _parse_cell_content
RowData(cells, strGetText) ==
    [k \in 1..Min(WeekdayCells, Len(cells)) |-> parse_cell_content(cells[k], strGetText)]

\* the loop over the table's rows: hours and cell_grid
RECURSIVE BuildGrid(_, _, _, _)
BuildGrid(rows, k, g, strGetText) ==
    IF k > Len(rows) THEN g
    ELSE LET row == rows[k] IN
         IF row.first_text.matches /\ ~parse_hour_raises(row.first_text)
         THEN BuildGrid(rows, k + 1,
                  [hours     |-> Append(g.hours, parse_hour(row.first_text)),
                   cell_grid |-> Append(g.cell_grid, RowData(row.cells, strGetText))],
                  strGetText)
         ELSE BuildGrid(rows, k + 1, g, strGetText)

----------------------------------------------------------------------------
(* parse_events: the span merger and the materializer.  Rows and columns   *)
(* are counted from 0 as in the code.                                      *)

CellAt(cell_grid, row, col) == cell_grid[row + 1][col + 1]

SameEvent(next_event, event_data) ==
    /\ next_event.course_name = event_data.course_name
    /\ next_event.event_type = event_data.event_type
    /\ next_event.room = event_data.room

\* the look-ahead loop: how many rows from next_row on continue event_data
RECURSIVE LookAhead(_, _, _, _)
LookAhead(cell_grid, next_row, col, event_data) ==
    IF next_row < Len(cell_grid) /\ col < Len(cell_grid[next_row + 1])
    THEN LET next_cell_events == CellAt(cell_grid, next_row, col) IN
         IF \E k \in 1..Len(next_cell_events) : SameEvent(next_cell_events[k], event_data)
         THEN 1 + LookAhead(cell_grid, next_row + 1, col, event_data)
         ELSE 0
    ELSE 0

\* the fallback adding the hour to the event's start instead of the last slot
EndTimeFromStart(hours, row, span_count) ==
    IF row + span_count < Len(hours)
    THEN hours[row + span_count + 1]
    ELSE Time((hours[row + 1].hour + 1) % 24, hours[row + 1].minute)

\* the end of an event that starts in row and spans span_count rows
EndTime(hours, row, span_count) ==
    IF row + span_count < Len(hours)
    THEN hours[row + span_count + 1]
    ELSE LET end_row_idx == Min(row + span_count, Len(hours) - 1)
         IN  Time((hours[end_row_idx + 1].hour + 1) % 24, hours[end_row_idx + 1].minute)

\* a ValueError that ends the batch: what was collected is lost
TryAppendOrAbort(events, event) ==
    IF post_init(event) = "" THEN Append(events, event) ELSE <<>>

\* try: events.append(ScheduleEvent(...)) except ValueError: print a warning
TryAppend(events, event) ==
    IF post_init(event) = "" THEN Append(events, event) ELSE events

\* a look-ahead that counts the continuation rows without marking them
MarkedOriginOnly(row, col, course_name, span_count) == {<<row, col, course_name>>}

\* the keys one merge adds to processed: processed.add in the look-ahead for
\* each continuation row, processed.add(course_key) for the origin
Marked(row, col, course_name, span_count) ==
    {<<r, col, course_name>> : r \in row..(row + span_count - 1)}

\* one pass of the loop over the fragments of a cell.  attempts and skipped
\* record what the pass did: they are not state of the program.
MergeFragment(hours, cell_grid, row, col, idx, st) ==
    LET event_data == CellAt(cell_grid, row, col)[idx]
        course_key == <<row, col, event_data.course_name>>
    IN  IF course_key \in st.processed
        THEN [st EXCEPT !.skipped = Append(@, [row |-> row, col |-> col, idx |-> idx])]
        ELSE LET span_count == 1 + LookAhead(cell_grid, row + 1, col, event_data)
                 event == ScheduleEvent(event_data, col, hours[row + 1],
                                        EndTime(hours, row, span_count))
             IN  [processed |-> st.processed \cup
                                Marked(row, col, event_data.course_name, span_count),
                  events    |-> TryAppend(st.events, event),
                  attempts  |-> Append(st.attempts,
                                    [event |-> event, row |-> row, idx |-> idx,
                                     span |-> span_count]),
                  skipped   |-> st.skipped]

RECURSIVE CellLoop(_, _, _, _, _, _)
CellLoop(hours, cell_grid, row, col, idx, st) ==
    IF idx > Len(CellAt(cell_grid, row, col)) THEN st
    ELSE CellLoop(hours, cell_grid, row, col, idx + 1,
                  MergeFragment(hours, cell_grid, row, col, idx, st))

RECURSIVE RowLoop(_, _, _, _, _)
RowLoop(hours, cell_grid, row, col, st) ==
    IF row >= Len(cell_grid) THEN st
    ELSE IF col >= Len(cell_grid[row + 1])
         THEN RowLoop(hours, cell_grid, row + 1, col, st)
         ELSE RowLoop(hours, cell_grid, row + 1, col,
                      CellLoop(hours, cell_grid, row, col, 1, st))

\* range(min(5, len(cell_grid[0]) if cell_grid else 0))
Columns(cell_grid) ==
    Min(WeekdayCells, IF cell_grid # <<>> THEN Len(cell_grid[1]) ELSE 0)

\* the same cells visited row by row: all columns of a row before the next row
RECURSIVE RowMajorLoop(_, _, _, _)
RowMajorLoop(hours, cell_grid, row, st) ==
    LET RECURSIVE Across(_, _)
        Across(col, t) ==
            IF col >= Columns(cell_grid) THEN t
            ELSE IF col >= Len(cell_grid[row + 1]) THEN Across(col + 1, t)
            ELSE Across(col + 1, CellLoop(hours, cell_grid, row, col, 1, t))
    IN  IF row >= Len(cell_grid) THEN st
        ELSE RowMajorLoop(hours, cell_grid, row + 1, Across(0, st))

RECURSIVE ColLoop(_, _, _, _)
ColLoop(hours, cell_grid, col, st) ==
    IF col >= Columns(cell_grid) THEN st
    ELSE ColLoop(hours, cell_grid, col + 1, RowLoop(hours, cell_grid, 0, col, st))

\* processed kept on the scraper from one call to the next
NewMergeKeepingProcessed ==
    [processed |-> outcome.processed, events |-> <<>>, attempts |-> <<>>,
     skipped |-> <<>>]

\* processed = set(), events = [] of one call
NewMerge == [processed |-> {}, events |-> <<>>, attempts |-> <<>>, skipped |-> <<>>]

Raised(message) ==
    [kind |-> "raised", error |-> message, events |-> <<>>, attempts |-> <<>>,
     skipped |-> <<>>, processed |-> {}, hours |-> <<>>, cell_grid |-> <<>>]

\* if not table ...: raise ValueError
table_missing(doc) == doc.table = None

\* parse_events without the check of hours
no_hours_unchecked(hours) == FALSE

\* if not hours: raise ValueError
no_hours(hours) == hours = <<>>

\* self._soup: None, or the document fetch_schedule loaded.  table is the class
\* of the document's table (None without one), rows its tr elements.
NoSoup == [loaded |-> FALSE, table |-> None, rows |-> <<>>]

Document(table, rows) == [loaded |-> TRUE, table |-> table, rows |-> rows]

Row(first_text, cells) == [first_text |-> first_text, cells |-> cells]

NoData == "No schedule data loaded. Call fetch_schedule() first."
TableNotFound == "Schedule table not found in the page"
NoTimeSlots == "No time slots found in schedule table"

\* parse_events on self._soup = doc
parse_events(doc, strGetText) ==
    IF ~doc.loaded
    THEN Raised(NoData)
    ELSE IF table_missing(doc)
    THEN Raised(TableNotFound)
    ELSE LET g == BuildGrid(doc.rows, 1, [hours |-> <<>>, cell_grid |-> <<>>], strGetText)
         IN  IF no_hours(g.hours)
             THEN Raised(NoTimeSlots)
             ELSE LET st == ColLoop(g.hours, g.cell_grid, 0, NewMerge)
                  IN  [kind |-> "returned", error |-> "", events |-> st.events,
                       attempts |-> st.attempts, skipped |-> st.skipped,
                       processed |-> st.processed, hours |-> g.hours, cell_grid |-> g.cell_grid]

----------------------------------------------------------------------------
(* The documents and cells the model is run on *)

CellA   == <<Bold("NE 1"), Text("[W]"), Subject("A"), Text("dr Jan Kowalski")>>
CellAL  == <<Text("[L]"), Subject("A")>>
CellB0  == <<Subject("B"), Bold("co 0 tygodni")>>
CellAB  == <<Subject("A"), Bold("co 2 tygodnie"), Br, Subject("B")>>
CellAAL == <<Text("[W]"), Subject("A"), Br, Text("[L]"), Subject("A")>>
Empty   == <<>>

ContentCells == {Empty, CellA, CellAL, CellB0, CellAB, CellAAL}
TimingCells == {CellA, CellB0}
LayoutCells == {Empty, CellA}

Labels == {Label(7, 0), Label(8, 15), Label(23, 30), Label(25, 0), NoLabel}

\* the label of the k-th row of a table whose labels are in order
RegularLabel(k) == Label(7 + k, 15 * (k % 4))

Striped == "table table-bordered table-striped"

\* one weekday column, labels in order, any of the cells
ContentDocs ==
    UNION {{Document(Striped, [k \in 1..n |-> Row(RegularLabel(k), <<cs[k]>>)]) :
               cs \in [1..n -> ContentCells]} : n \in 1..MaxRows}

\* one weekday column, any labels
TimingRows == {Row(l, <<c>>) : l \in Labels, c \in TimingCells}

TimingDocs ==
    UNION {{Document(Striped, rows) : rows \in [1..n -> TimingRows]} : n \in 0..MaxRows}

\* rows of 0, 1, 2 and 6 weekday cells, labels in order
LayoutRowCells ==
    {<<>>} \cup {<<c>> : c \in LayoutCells}
           \cup {<<CellA, d>> : d \in {Empty, CellAB}}
           \cup {<<c, d, Empty, Empty, Empty, CellA>> :
                    c \in LayoutCells, d \in {Empty, CellAB}}

LayoutDocs ==
    UNION {{Document(Striped, [k \in 1..n |-> Row(RegularLabel(k), cs[k])]) :
               cs \in [1..n -> LayoutRowCells]} : n \in 1..MaxRows}

\* a document without a table, and one whose table has the class "table" only
OtherTables ==
    {Document(t, rows) : t \in {None, "table"},
                         rows \in UNION {[1..n -> TimingRows] : n \in 0..1}}

\* the child nodes the cells of the cell parser's runs are made of
Nodes ==
    {Subject("A"), Subject("B"), Subject(""), Text("[W]"), Text("[L]"), Text(""), Br,
     BoldRoom("NE 1"), Bold("co 2 tygodnie"), Text("dr Jan Kowalski"), Span("opis")}

ShortCells == UNION {[1..n -> Nodes] : n \in 0..MaxNodes}

\* a type code or a room marker, then k nodes without text, then the anchor
PaddedCells ==
    {<<m>> \o [j \in 1..k |-> f] \o <<Subject("A")>> :
        m \in {Text("[W]"), BoldRoom("NE 1")}, f \in {Br, Text("")}, k \in 0..MaxPad}

Cells == ShortCells \cup PaddedCells

Documents == ContentDocs \cup TimingDocs \cup LayoutDocs \cup OtherTables

----------------------------------------------------------------------------
(* The scraper *)

NoOutcome ==
    [kind |-> "none", error |-> "", events |-> <<>>, attempts |-> <<>>,
     skipped |-> <<>>, processed |-> {}, hours |-> <<>>, cell_grid |-> <<>>]

NoFragments == [returned |-> FALSE, events |-> <<>>]

\* ScheduleScraper.__init__: no document is loaded
Init ==
    /\ page \in Documents
    /\ bs4_strings_have_get_text \in BOOLEAN
    /\ soup = NoSoup
    /\ outcome = NoOutcome
    /\ previous = NoOutcome
    /\ parses = 0
    /\ cell = <<>>
    /\ fragments = NoFragments

\* fetch_schedule: self._soup = BeautifulSoup(self._driver.page_source, "lxml")
FetchSchedule ==
    /\ soup' = page
    /\ parses' = 0
    /\ outcome' = NoOutcome
    /\ previous' = NoOutcome
    /\ UNCHANGED <<page, bs4_strings_have_get_text, cell, fragments>>

\* parse_events that gives up the document it parsed
ParseEventsConsuming ==
    /\ parses < MaxParses
    /\ outcome' = parse_events(soup, bs4_strings_have_get_text)
    /\ previous' = outcome
    /\ parses' = parses + 1
    /\ soup' = NoSoup
    /\ UNCHANGED <<page, bs4_strings_have_get_text, cell, fragments>>

\* parse_events
ParseEvents ==
    /\ parses < MaxParses
    /\ outcome' = parse_events(soup, bs4_strings_have_get_text)
    /\ previous' = outcome
    /\ parses' = parses + 1
    /\ UNCHANGED <<page, bs4_strings_have_get_text, soup, cell, fragments>>

Next == FetchSchedule \/ ParseEvents

Spec == Init /\ [][Next]_vars

----------------------------------------------------------------------------
(* The cell parser on its own *)

InitCell ==
    /\ cell \in Cells
    /\ bs4_strings_have_get_text \in BOOLEAN
    /\ fragments = NoFragments
    /\ page = NoSoup
    /\ soup = NoSoup
    /\ outcome = NoOutcome
    /\ previous = NoOutcome
    /\ parses = 0

\* _parse_cell_content(cell)
ParseCellContent ==
    /\ ~fragments.returned
    /\ fragments' = [returned |-> TRUE,
                     events |-> parse_cell_content(cell, bs4_strings_have_get_text)]
    /\ UNCHANGED <<page, bs4_strings_have_get_text, soup, outcome, previous,
                   parses, cell>>

NextCell == ParseCellContent

SpecCell == InitCell /\ [][NextCell]_vars

----------------------------------------------------------------------------
(* Properties *)

Returned == outcome.kind = "returned"

IsValid(attempt) == post_init(attempt.event) = ""

\* the attempts whose record the constructor accepted, in order
Accepted(o) == SelectSeq(o.attempts, IsValid)

EventsOf(attempts) == [i \in 1..Len(attempts) |-> attempts[i].event]

Before(t, u) == Minutes(t) < Minutes(u)

\* C1: every event of the returned list has its weekday in 0..4, its start
\* time strictly before its end time and a repeat interval of at least 1.
C1_ReturnedEventsValid ==
    \A i \in 1..Len(outcome.events) :
        LET e == outcome.events[i] IN
        /\ e.weekday \in 0..4
        /\ Before(e.start_time, e.end_time)
        /\ e.repeat_interval >= 1

\* a list was returned that holds an event, while one record was built with
\* start >= end and another with interval 0
C1_Witness ==
    /\ Returned
    /\ outcome.events # <<>>
    /\ \E i \in 1..Len(outcome.attempts) :
           LET e == outcome.attempts[i].event IN ~Before(e.start_time, e.end_time)
    /\ \E i \in 1..Len(outcome.attempts) :
           LET e == outcome.attempts[i].event IN
           Before(e.start_time, e.end_time) /\ e.repeat_interval < 1

\* a fragment matching key is in the cell at (row, col) of the grid
HasFragment(cell_grid, row, col, key) ==
    /\ row \in 0..(Len(cell_grid) - 1)
    /\ col < Len(cell_grid[row + 1])
    /\ \E k \in 1..Len(CellAt(cell_grid, row, col)) :
           SameEvent(CellAt(cell_grid, row, col)[k], key)

\* rows r..r+k-1 of column col are a maximal run of fragments matching key
IsRun(cell_grid, col, r, k, key) ==
    /\ \A q \in r..(r + k - 1) : HasFragment(cell_grid, q, col, key)
    /\ ~HasFragment(cell_grid, r - 1, col, key)
    /\ ~HasFragment(cell_grid, r + k, col, key)

\* the fragments of the grid
FragmentsIn(cell_grid) ==
    UNION {UNION {{cell_grid[r][c][k] : k \in 1..Len(cell_grid[r][c])} :
                     c \in 1..Len(cell_grid[r])} : r \in 1..Len(cell_grid)}

\* the returned events that come from rows r..r+k-1 of column col and match key
EventsOfRun(o, col, r, k, key) ==
    {i \in 1..Len(Accepted(o)) :
        /\ Accepted(o)[i].event.weekday = col
        /\ SameEvent(Accepted(o)[i].event, key)
        /\ Accepted(o)[i].row \in r..(r + k - 1)}

\* C2, as claimed, on the tables none of whose records the constructor
\* rejects: a maximal run of rows r..r+k-1 of one weekday column holding
\* matching fragments gives exactly one event, which starts at hours[r] and,
\* when hours[r+k] exists, ends there.
C2_RunGivesOneEvent ==
    (Returned /\ Len(outcome.events) = Len(outcome.attempts)) =>
        \A col \in 0..(WeekdayCells - 1), r \in 0..(Len(outcome.cell_grid) - 1),
           k \in 1..Len(outcome.cell_grid), key \in FragmentsIn(outcome.cell_grid) :
            IsRun(outcome.cell_grid, col, r, k, key) =>
                /\ Cardinality(EventsOfRun(outcome, col, r, k, key)) = 1
                /\ \A i \in EventsOfRun(outcome, col, r, k, key) :
                       LET e == Accepted(outcome)[i].event IN
                       /\ e.start_time = outcome.hours[r + 1]
                       /\ r + k < Len(outcome.hours) =>
                              e.end_time = outcome.hours[r + k + 1]

\* the attempts whose event reaches the last slot: no boundary at row + span
ReachesLastSlot(o, a) == a.row + a.span >= Len(o.hours)

C4_RejectedRecordSkipped ==
    (outcome.kind # "none" /\ soup.loaded /\ ~table_missing(soup)
         /\ outcome.error # NoTimeSlots) =>
        /\ Returned
        /\ outcome.events = EventsOf(Accepted(outcome))

\* a rejected record was built between two accepted ones
C4_Witness ==
    /\ Returned
    /\ \E i, j, k \in 1..Len(outcome.attempts) :
           /\ i < j /\ j < k
           /\ IsValid(outcome.attempts[i])
           /\ ~IsValid(outcome.attempts[j])
           /\ IsValid(outcome.attempts[k])
    /\ Len(outcome.events) >= 2

\* the rows of the document that the grid builder takes for time-slot rows
RecognizedRows(doc) ==
    {k \in 1..Len(doc.rows) :
        /\ doc.rows[k].first_text.matches
        /\ ValidTime(doc.rows[k].first_text.h, doc.rows[k].first_text.m)}

\* C5: without a table parse_events raises 'table not found', with a table
\* but no recognized time-label row it raises 'no time slots found'; neither
\* call returns a list.
C5_StructuralAbsenceFatal ==
    (outcome.kind # "none" /\ soup.loaded) =>
        /\ soup.table = None =>
               outcome.kind = "raised" /\ outcome.error = TableNotFound
        /\ (soup.table # None /\ RecognizedRows(soup) = {}) =>
               outcome.kind = "raised" /\ outcome.error = NoTimeSlots

\* a table whose only rows carry a course but no valid time label was parsed
C5_Witness ==
    /\ outcome.kind = "raised"
    /\ outcome.error = NoTimeSlots
    /\ soup.loaded
    /\ soup.rows # <<>>
    /\ \E k \in 1..Len(soup.rows) :
           soup.rows[k].first_text.matches /\ soup.rows[k].cells = <<CellA>>

\* C6, as claimed: parse_events raises 'no schedule data loaded' before any
\* fetch_schedule and on every call after the first one since fetch_schedule.
C6_RepeatedParseFails ==
    (outcome.kind # "none" /\ (~soup.loaded \/ parses >= 2)) =>
        outcome.kind = "raised" /\ outcome.error = NoData

\* C6, amended: parse_events raises 'no schedule data loaded' exactly when no
\* fetch_schedule has loaded a document; once one is loaded, every call, also
\* a repeated one without a new fetch_schedule, parses that document.
C6_NoDataIffNothingLoaded ==
    outcome.kind # "none" =>
        ((outcome.kind = "raised" /\ outcome.error = NoData) <=> ~soup.loaded)

\* the second call since fetch_schedule returned events
C6_Witness ==
    /\ parses >= 2
    /\ soup.loaded
    /\ Returned
    /\ outcome.events # <<>>

C8_ColumnMajorOrder ==
    Returned =>
        /\ outcome.events = EventsOf(Accepted(outcome))
        /\ \A i, j \in 1..Len(Accepted(outcome)) :
               LET a == Accepted(outcome)[i]
                   b == Accepted(outcome)[j]
               IN  i < j =>
                       \/ a.event.weekday < b.event.weekday
                       \/ a.event.weekday = b.event.weekday /\ a.row < b.row
                       \/ a.event.weekday = b.event.weekday /\ a.row = b.row
                              /\ a.idx < b.idx

\* an event of a lower row follows one of a higher row of an earlier weekday,
\* and two events come from one cell
C8_Witness ==
    /\ Returned
    /\ \E i, j \in 1..Len(Accepted(outcome)) :
           /\ i < j
           /\ Accepted(outcome)[i].event.weekday < Accepted(outcome)[j].event.weekday
           /\ Accepted(outcome)[i].row > Accepted(outcome)[j].row
    /\ \E i, j \in 1..Len(Accepted(outcome)) :
           /\ i < j
           /\ Accepted(outcome)[i].event.weekday = Accepted(outcome)[j].event.weekday
           /\ Accepted(outcome)[i].row = Accepted(outcome)[j].row

\* the document with every row filled up to five weekday cells by empty cells
Padded(doc) ==
    [doc EXCEPT !.rows =
        [k \in 1..Len(doc.rows) |->
            [doc.rows[k] EXCEPT !.cells =
                @ \o [j \in 1..(WeekdayCells - Min(WeekdayCells, Len(@))) |-> Empty]]]]

\* C9, as claimed: the events returned for a table are those returned for
\* the table whose short rows are filled up with empty cells.
C9_ShortRowAsPadded ==
    Returned =>
        outcome.events = parse_events(Padded(soup), bs4_strings_have_get_text).events

\* the positions of the course-name anchors of a cell, in document order
AnchorSeq(c) ==
    LET IsAnchor(i) == i \in subject_links(c)
    IN  SelectSeq([i \in 1..Len(c) |-> i], IsAnchor)

\* the bracketed codes of the event of the anchor at i: those among the
\* siblings after the anchor before it
OwnCodes(c, i) ==
    {j \in 1..(i - 1) :
        /\ TypeCodeIn(c[j].text) # ""
        /\ \A q \in j..(i - 1) : q \notin subject_links(c)}

LabelOfCode(code) ==
    CASE code = "W" -> "Wyklad"
      [] code = "L" -> "Laboratorium"
      [] code = "P" -> "Projekt"
      [] code = "S" -> "Seminarium"
      [] code = "C" -> "Cwiczenia"

\* C10, as claimed: a fragment has the code and the label of the bracketed
\* code of its own event (the nearest one, looked for among the PrevWindow
\* siblings before the anchor), and the generic label and an empty code when
\* its event has none, also after an earlier event of the cell that has one.
C10_TypeOfOwnEvent ==
    fragments.returned =>
        \A k \in 1..Len(fragments.events) :
            k <= Len(AnchorSeq(cell)) =>
                LET i   == AnchorSeq(cell)[k]
                    own == OwnCodes(cell, i)
                    f   == fragments.events[k]
                IN  IF own = {}
                    THEN f.event_type_code = "" /\ f.event_type = "Zajecia"
                    ELSE LET j == CHOOSE j \in own : \A q \in own : q <= j
                         IN  i - j <= PrevWindow =>
                                 /\ f.event_type_code = TypeCodeIn(cell[j].text)
                                 /\ f.event_type = LabelOfCode(f.event_type_code)

\* the siblings after the anchor at i that come before the next course-name
\* anchor: the rest of the anchor's own event
OwnAfter(c, i) ==
    {j \in (i + 1)..Len(c) : \A q \in (i + 1)..j : q \notin subject_links(c)}

\* C11, as claimed: a fragment whose first bold sibling after the anchor,
\* before the next anchor, says 'co 2 tygodnie' has interval 2, and a fragment
\* with no interval phrase between its anchor and the next anchor has interval
\* 1, also when a later event of the cell has the phrase.
C11_IntervalOfOwnEvent ==
    fragments.returned =>
        \A k \in 1..Len(fragments.events) :
            k <= Len(AnchorSeq(cell)) =>
                LET i     == AnchorSeq(cell)[k]
                    own   == OwnAfter(cell, i)
                    bolds == {j \in own : cell[j].name = "b"}
                    f     == fragments.events[k]
                IN  /\ (\E j \in bolds : /\ \A q \in bolds : j <= q
                                         /\ BiweeklyIn(cell[j].text)) =>
                           f.repeat_interval = 2
                    /\ (\A j \in own : /\ ~BiweeklyIn(cell[j].text)
                                       /\ EveryNWeeksIn(cell[j].text) = -1) =>
                           f.repeat_interval = 1

\* C12: a cell without text gives no fragment; any other cell gives one
\* fragment per course-name anchor, in document order, each named by its
\* anchor's text, whatever other markup the cell has or lacks.
C12_OneFragmentPerAnchor ==
    fragments.returned =>
        IF CellTextEmpty(cell)
        THEN fragments.events = <<>>
        ELSE /\ Len(fragments.events) = Cardinality(subject_links(cell))
             /\ Len(fragments.events) = Len(AnchorSeq(cell))
             /\ \A k \in 1..Len(fragments.events) :
                    fragments.events[k].course_name = cell[AnchorSeq(cell)[k]].text

\* two anchors without room, type, instructor or interval markup gave two fragments
C12_Witness ==
    /\ fragments.returned
    /\ Cardinality(subject_links(cell)) = 2
    /\ Len(fragments.events) = 2
    /\ fragments.events[1].course_name = "A"
    /\ fragments.events[2].course_name = "B"
    /\ \A k \in 1..2 : /\ fragments.events[k].room = ""
                       /\ fragments.events[k].event_type_code = ""
                       /\ fragments.events[k].instructor = ""
                       /\ fragments.events[k].repeat_interval = 1

\* attempt a materialized the fragment idx of the cell at (row, col)
OriginOf(a, row, col, idx) ==
    a.row = row /\ a.event.weekday = col /\ a.idx = idx

\* the fragment f at (row, col) was folded into attempt a as a continuation
FoldedInto(a, row, col, f) ==
    /\ a.event.weekday = col
    /\ a.row < row /\ row <= a.row + a.span - 1
    /\ SameEvent(f, a.event)

\* C13, as claimed: in the columns the merger walks, every fragment is the
\* origin of a materialization attempt or was folded into an earlier attempt as
\* a continuation matching it on (course name, event type label, room); a
\* fragment is skipped only in the second case.
C13_SkippedOnlyIfFolded ==
    Returned =>
        \A row \in 0..(Len(outcome.cell_grid) - 1), col \in 0..(WeekdayCells - 1) :
            (col < Columns(outcome.cell_grid) /\ col < Len(outcome.cell_grid[row + 1])) =>
                \A idx \in 1..Len(CellAt(outcome.cell_grid, row, col)) :
                    \E a \in 1..Len(outcome.attempts) :
                        \/ OriginOf(outcome.attempts[a], row, col, idx)
                        \/ FoldedInto(outcome.attempts[a], row, col,
                                      CellAt(outcome.cell_grid, row, col)[idx])

\* the rows an attempt's event covers
RowsOf(a) == a.row..(a.row + a.span - 1)

\* C14: the returned events are the accepted attempts, and no two of them
\* with the same weekday and the same course name cover a common row.
C14_NoOverlappingEvents ==
    Returned =>
        /\ outcome.events = EventsOf(Accepted(outcome))
        /\ \A i, j \in 1..Len(Accepted(outcome)) :
               (/\ i # j
                /\ Accepted(outcome)[i].event.weekday = Accepted(outcome)[j].event.weekday
                /\ Accepted(outcome)[i].event.course_name =
                       Accepted(outcome)[j].event.course_name) =>
                   RowsOf(Accepted(outcome)[i]) \cap RowsOf(Accepted(outcome)[j]) = {}

\* two events of one course were returned for one weekday, the first of them
\* merged from two rows
C14_Witness ==
    /\ Returned
    /\ \E i, j \in 1..Len(Accepted(outcome)) :
           /\ i < j
           /\ Accepted(outcome)[i].event.weekday = Accepted(outcome)[j].event.weekday
           /\ Accepted(outcome)[i].event.course_name =
                  Accepted(outcome)[j].event.course_name
           /\ Accepted(outcome)[i].span = 2

\* the accepted attempts for weekday col that match key and cover row r
EventsCovering(o, col, r, key) ==
    {i \in 1..Len(Accepted(o)) :
        /\ Accepted(o)[i].event.weekday = col
        /\ SameEvent(Accepted(o)[i].event, key)
        /\ r \in RowsOf(Accepted(o)[i])}

\* C15, as claimed, on the tables none of whose records the constructor
\* rejects: two rows of one weekday column with identical fragments and a row
\* without such a fragment between them are never covered by one event, and
\* each of the two is covered by an event of its own that starts at the slot
\* boundary of its origin row.
C15_SeparatedRunsGiveSeparateEvents ==
    (Returned /\ Len(outcome.events) = Len(outcome.attempts)) =>
        \A col \in 0..(WeekdayCells - 1), r1, r2 \in 0..(Len(outcome.cell_grid) - 1),
           key \in FragmentsIn(outcome.cell_grid) :
            (/\ r1 < r2
             /\ HasFragment(outcome.cell_grid, r1, col, key)
             /\ HasFragment(outcome.cell_grid, r2, col, key)
             /\ \E q \in (r1 + 1)..(r2 - 1) : ~HasFragment(outcome.cell_grid, q, col, key)) =>
                /\ EventsCovering(outcome, col, r1, key) \cap
                       EventsCovering(outcome, col, r2, key) = {}
                /\ \A r \in {r1, r2} :
                       /\ EventsCovering(outcome, col, r, key) # {}
                       /\ \A i \in EventsCovering(outcome, col, r, key) :
                              Accepted(outcome)[i].event.start_time =
                                  outcome.hours[Accepted(outcome)[i].row + 1]

\* the siblings before position i that are elements or non-blank text nodes,
\* nearest first
RECURSIVE CountedBefore(_, _)
CountedBefore(c, i) ==
    IF i <= 1 THEN <<>>
    ELSE IF IsTag(c[i - 1]) \/ NonBlank(c[i - 1])
         THEN <<c[i - 1]>> \o CountedBefore(c, i - 1)
         ELSE CountedBefore(c, i - 1)

\* the nearest PrevWindow of them
Nearest(c, i) ==
    SubSeq(CountedBefore(c, i), 1, Min(PrevWindow, Len(CountedBefore(c, i))))

\* C16, as claimed: a fragment has a room only if a room marker or room-shaped
\* bold is among the 5 nearest preceding siblings of its anchor (elements and
\* non-blank text nodes), and a type code only if a bracketed code is among them.
C16_LookupWithinFiveSiblings ==
    fragments.returned =>
        \A k \in 1..Len(fragments.events) :
            k <= Len(AnchorSeq(cell)) =>
                LET near == Nearest(cell, AnchorSeq(cell)[k]) IN
                /\ RoomOf(near) = "" => fragments.events[k].room = ""
                /\ TypeCodeOf(near) = "" =>
                       /\ fragments.events[k].event_type_code = ""
                       /\ fragments.events[k].event_type = event_type_map("")

\* C17, as claimed: the slot boundaries have one entry per grid row and are
\* strictly increasing, whatever the order or validity of the table's labels.
C17_HoursStrictlyIncreasing ==
    Returned =>
        /\ Len(outcome.hours) = Len(outcome.cell_grid)
        /\ Len(outcome.hours) = Cardinality(RecognizedRows(soup))
        /\ \A i, j \in 1..Len(outcome.hours) :
               i < j => Before(outcome.hours[i], outcome.hours[j])

====
